---- MODULE Spec2Model ----
(***************************************************************************)
(* A model of aiospotify's HTTPClient (src/aiospotify/http.py): the token  *)
(* state, the aiohttp session, the asyncio lock, and the coroutines        *)
(* request(), authorize() and destroy() run by concurrently scheduled      *)
(* asyncio tasks.  A task only gives up control at an await that really    *)
(* suspends (a network exchange, a wait for the locked lock), so every     *)
(* action below is the code that runs between two such suspensions.        *)
(* Network exchanges that were started are answered; time is in whole      *)
(* seconds.                                                                 *)
(***************************************************************************)
EXTENDS Integers, Sequences, FiniteSets, TLC

----------------------------------------------------------------------------
(* Bounds of the model *)

Tasks == {"t1", "t2"}
\* the task of the sequential specification
Caller == "t1"
\* every task there is; the third one only runs in RaceSpec
AllTasks == {"t1", "t2", "t3"}

\* the clock stops here
MaxTime == 30
\* tokens the authorization endpoint issues
MaxTokens == 2
\* top-level calls (authorize / request / destroy) made on the client
MaxOps == 3

\* the clock advances in steps of this many seconds
Delays == {5}

\* expires_in values the authorization endpoint returns
ExpiresInValues == {20, 86400}

\* statuses the authorization endpoint answers with
AuthStatuses == {200, 201, 202, 204, 304, 400, 401, 403, 404, 429, 500, 501, 502, 503}

\* statuses a data endpoint answers with
DataStatuses == {200, 204, 299, 300, 304, 400, 401, 403, 404, 429, 500, 501, 502, 503}

\* the statuses the services answer with when several tasks run
SomeAuthStatuses == {200, 400, 401}
SomeDataStatuses == {200, 401, 404}
SomeExpiresIn == {20}

\* parsed bodies of successful data responses
Payloads == {"track_X", "track_Y"}

\* An error body: data["error"] is either a dict {status, message} or a
\* string (etype), and "error_description" is present or not (desc).

\* error is the text str(data["error"]) gives, message is
\* data["error"]["message"], description is data["error_description"].
NoText == "None"

\* {error: {status, message}}
NestedBody ==
    [etype |-> "dict", desc |-> FALSE,
     error |-> "{'status': 404, 'message': 'Not found.'}",
     message |-> "Not found.", description |-> NoText]
\* {error, error_description}
FlatDescBody ==
    [etype |-> "str", desc |-> TRUE, error |-> "invalid_client",
     message |-> NoText, description |-> "Invalid client secret"]
\* {error}
FlatBody ==
    [etype |-> "str", desc |-> FALSE, error |-> "invalid_client",
     message |-> NoText, description |-> NoText]

\* the classes of errors.py that HTTPException.__init__ constructs
ExcClasses ==
    {"HTTPException", "InvalidClientCredentials", "Forbidden", "NotFound",
     "ServerError"}
\* the arguments the constructor is tried with
ExcStatuses == {400, 401, 403, 404, 429, 500, 502, 503}
ExcBodies == {NestedBody, FlatDescBody, FlatBody}
ExtraMessages == {NoText, "try again"}

\* error bodies of the account service: {error, error_description?}
AuthErrorBodies == {FlatBody, FlatDescBody}
\* error bodies of the data endpoints: {error: {status, message}} or
\* {error, error_description}
DataErrorBodies == {NestedBody, FlatDescBody}

----------------------------------------------------------------------------
(* Values *)

NoTask == "no_task"
\* _access_token not set
NoToken == 0
\* _expires_at not set
NoExpiry == -1
NoStatus == 0
NoBody == "no_body"

SecondsPerDay == 86400
StaleSeconds == 10

VARIABLES
    now,            \* datetime.datetime.utcnow(), in seconds
    session,        \* "none": no _session attribute; "open"; "closed"
    access_token,   \* self._access_token
    expires_at,     \* self._expires_at
    lock,           \* self.lock: the task whose frame holds it, or NoTask
    created,        \* aiohttp.ClientSession objects constructed so far
    closes,         \* ClientSession.close() calls made so far
    issued,         \* tokens issued by the account service so far
    ops,            \* top-level calls made so far
    pc,             \* where each task is suspended
    op,             \* the top-level call a task runs or has last run
    site,           \* the call site of the authorize() a task is inside
    depth,          \* request() frames of the task suspended at line 142
    hdr,            \* the token in the task's Authorization header
    sent,           \* the token the task's last data call carried
    nAuth,          \* authorize() calls made by the task's current call
    nData,          \* data calls made by the task's current call
    chk,            \* <<now, _expires_at>> read by the task's request()
    status,         \* status of the last data response the task received
    authStatus,     \* status of the last authorization response
    before,         \* <<_access_token, _expires_at>> when authorize() began
    grant,          \* <<access_token, expires_in>> of the last 200 answer
    result,         \* outcome of the task's call
    ret,            \* the data the task's request() returned
    excArgs,        \* arguments of a direct call of an exception class
    excOut          \* what that call raised or returned

vars == <<now, session, access_token, expires_at, lock, created, closes,
          issued, ops, pc, op, site, depth, hdr, sent, nAuth, nData, chk,
          status, authStatus, before, grant, result, ret, excArgs, excOut>>

\* The state as one record, so that a handler can be written as the
\* composition of the calls it makes.
Cur ==
    [now |-> now, session |-> session, access_token |-> access_token,
     expires_at |-> expires_at, lock |-> lock, created |-> created,
     closes |-> closes, issued |-> issued, ops |-> ops, pc |-> pc, op |-> op,
     site |-> site, depth |-> depth, hdr |-> hdr, sent |-> sent,
     nAuth |-> nAuth, nData |-> nData, chk |-> chk, status |-> status,
     authStatus |-> authStatus, before |-> before, grant |-> grant,
     result |-> result,
     ret |-> ret]

Apply(S) ==
    /\ now' = S.now
    /\ session' = S.session
    /\ access_token' = S.access_token
    /\ expires_at' = S.expires_at
    /\ lock' = S.lock
    /\ created' = S.created
    /\ closes' = S.closes
    /\ issued' = S.issued
    /\ ops' = S.ops
    /\ pc' = S.pc
    /\ op' = S.op
    /\ site' = S.site
    /\ depth' = S.depth
    /\ hdr' = S.hdr
    /\ sent' = S.sent
    /\ nAuth' = S.nAuth
    /\ nData' = S.nData
    /\ chk' = S.chk
    /\ status' = S.status
    /\ authStatus' = S.authStatus
    /\ before' = S.before
    /\ grant' = S.grant
    /\ result' = S.result
    /\ ret' = S.ret
    /\ UNCHANGED <<excArgs, excOut>>

\* a text of four parts: "{status} {error}: {detail} ({extra})"
Text(st, error, detail, extra) ==
    [status |-> st, error |-> error, detail |-> detail, extra |-> extra]

\* no exception class was called yet
NoArgs ==
    [cls |-> "none", status |-> NoStatus, data |-> NestedBody,
     message |-> NoText]
NoExc == [cls |-> "none", msg |-> Text(NoStatus, NoText, NoText, NoText)]

Init ==
    /\ now = 0
    /\ session = "none"
    /\ access_token = NoToken
    /\ expires_at = NoExpiry
    /\ lock = NoTask
    /\ created = 0
    /\ closes = 0
    /\ issued = 0
    /\ ops = 0
    /\ pc = [t \in AllTasks |-> "idle"]
    /\ op = [t \in AllTasks |-> "none"]
    /\ site = [t \in AllTasks |-> "none"]
    /\ depth = [t \in AllTasks |-> 0]
    /\ hdr = [t \in AllTasks |-> NoToken]
    /\ sent = [t \in AllTasks |-> NoToken]
    /\ nAuth = [t \in AllTasks |-> 0]
    /\ nData = [t \in AllTasks |-> 0]
    /\ chk = [t \in AllTasks |-> <<0, NoExpiry>>]
    /\ status = [t \in AllTasks |-> NoStatus]
    /\ authStatus = [t \in AllTasks |-> NoStatus]
    /\ before = [t \in AllTasks |-> <<NoToken, NoExpiry>>]
    /\ grant = [t \in AllTasks |-> <<NoToken, 0>>]
    /\ result = [t \in AllTasks |-> "none"]
    /\ ret = [t \in AllTasks |-> NoBody]
    /\ excArgs = NoArgs
    /\ excOut = NoExc

----------------------------------------------------------------------------
(* errors.py *)

\* HTTPException.__init__(data, status_code): the class of the exception
\* that leaves the raise statement.  `desc := data.get("error_description")
\* is not None` binds a bool; without a description the code indexes
\* data["error"] with "message", which a str does not support.
ExcInit(cls, data) ==
    IF data.desc THEN cls
    ELSE IF data.etype = "dict" THEN cls
    ELSE "TypeError"

\* lines 48-57: the text handed to Exception.__init__.  desc is the bool
\* of line 49, so line 50 appends "True".
ExcMessage(data, status_code, message) ==
    Text(status_code, data.error,
         IF data.desc THEN "True" ELSE data.message,
         message)

\* cls(data, status_code, message): the exception object, or the TypeError
\* of line 52
Construct(cls, data, status_code, message) ==
    IF ExcInit(cls, data) = cls
    THEN [cls |-> cls, msg |-> ExcMessage(data, status_code, message)]
    ELSE [cls |-> ExcInit(cls, data),
          msg |-> Text(NoStatus, NoText,
                       "string indices must be integers", NoText)]

----------------------------------------------------------------------------
(* http.py *)

\* datetime.timedelta.seconds of a difference of d seconds: timedelta is
\* normalised to days plus 0 <= seconds < 86400.
TimedeltaSeconds(d) == d % SecondsPerDay

\* the condition of lines 112-114
NeedsRefresh(S) == TimedeltaSeconds(S.now - S.expires_at) <= StaleSeconds

\* `async with self.lock` left by the frames of task t
Release(S, t) == IF S.lock = t THEN [S EXCEPT !.lock = NoTask] ELSE S

\* The task's top-level call ends: a return value or an exception reaches
\* the caller through every frame, which leaves its `async with` blocks.
Complete(S, t, res, body) ==
    [Release(S, t) EXCEPT !.pc[t] = "idle", !.result[t] = res,
                          !.ret[t] = body, !.depth[t] = 0,
                          !.site[t] = "none"]

\* line 121: the data call is issued on the session; aiohttp refuses a
\* closed session with RuntimeError("Session is closed")
Send(S, t) ==
    IF S.session = "closed"
    THEN Complete(S, t, "RuntimeError", NoBody)
    ELSE [S EXCEPT !.pc[t] = "inflight", !.nData[t] = @ + 1,
                   !.sent[t] = S.hdr[t]]

\* LockAndSend without the lock: the call is issued whoever holds the lock
LockAndSendUnguarded(S, t) ==
    Send([S EXCEPT !.hdr[t] = S.access_token], t)

\* the tasks whose future is in the lock's _waiters
Waiters(S) == {u \in AllTasks : S.pc[u] = "lock_wait"}

\* lines 117-119: build the header, then take the lock or wait for it.
\* asyncio.Lock.acquire() returns at once, without suspending, when the
\* lock is free and nobody waits for it.
LockAndSend(S, t) ==
    LET S1 == [S EXCEPT !.hdr[t] = S.access_token] IN
    IF S1.lock = NoTask /\ Waiters(S1) = {}
    THEN Send([S1 EXCEPT !.lock = t], t)
    ELSE [S1 EXCEPT !.pc[t] = "lock_wait"]

\* CallAuthorize that makes a new session whenever none is open
CallAuthorizeRecreates(S, t, from) ==
    LET S1 == IF S.session # "open"
              THEN [S EXCEPT !.session = "open", !.created = @ + 1]
              ELSE S
    IN  [S1 EXCEPT !.pc[t] = "auth_wait", !.site[t] = from,
                   !.nAuth[t] = @ + 1,
                   !.before[t] = <<S.access_token, S.expires_at>>]

\* lines 163-175 of authorize(), called from `from`; the POST on a closed
\* session is refused like the data call
CallAuthorize(S, t, from) ==
    LET S1 == IF S.session = "none"
              THEN [S EXCEPT !.session = "open", !.created = @ + 1]
              ELSE S
    IN  IF S1.session = "closed"
        THEN Complete(S1, t, "RuntimeError", NoBody)
        ELSE [S1 EXCEPT !.pc[t] = "auth_wait", !.site[t] = from,
                        !.nAuth[t] = @ + 1,
                        !.before[t] = <<S.access_token, S.expires_at>>]

\* EnterRequest without the hasattr(self, "_session") test of line 100
EnterRequestNoSessionCheck(S, t) ==
    IF S.expires_at = NoExpiry
    THEN Complete(S, t, "AttributeError", NoBody)
    ELSE IF NeedsRefresh(S)
    THEN CallAuthorize(S, t, "fresh")
    ELSE LockAndSend(S, t)

\* EnterRequest that leaves the refresh to an authorize() already under way
EnterRequestCoalesced(S, t) ==
    IF S.session = "none"
    THEN Complete(S, t, "NotAuthorized", NoBody)
    ELSE IF S.expires_at = NoExpiry
    THEN Complete(S, t, "AttributeError", NoBody)
    ELSE IF NeedsRefresh(S) /\ \A u \in AllTasks : S.pc[u] # "auth_wait"
    THEN CallAuthorize(S, t, "fresh")
    ELSE LockAndSend(S, t)

\* lines 100-117 of request()
EnterRequest(S, t) ==
    IF S.session = "none"
    THEN Complete(S, t, "NotAuthorized", NoBody)
    ELSE IF S.expires_at = NoExpiry
    THEN Complete(S, t, "AttributeError", NoBody)
    ELSE IF NeedsRefresh(S)
    THEN CallAuthorize(S, t, "fresh")
    ELSE LockAndSend(S, t)

\* authorize() returns normally to its call site
AuthorizeReturn(S, t) ==
    CASE S.site[t] = "top" -> Complete(S, t, "ok", NoBody)
      [] S.site[t] = "fresh" -> LockAndSend([S EXCEPT !.site[t] = "none"], t)
      [] S.site[t] = "retry" ->
            EnterRequest([S EXCEPT !.site[t] = "none", !.depth[t] = @ + 1], t)

\* AuthorizeResponse that raises on the statuses of lines 186-192
AuthorizeResponseSoftRaises(S, t, st, expires_in, data) ==
    LET S0 == [S EXCEPT !.authStatus[t] = st] IN
    IF st = 200
    THEN AuthorizeReturn(
            [S0 EXCEPT !.grant[t] = <<S.issued + 1, expires_in>>,
                       !.issued = @ + 1,
                       !.access_token = S.issued + 1,
                       !.expires_at = S.now + expires_in], t)
    ELSE IF st \in {201, 202, 204, 304, 401, 404}
    THEN Complete(S0, t, ExcInit("HTTPException", data), NoBody)
    ELSE IF st = 400
    THEN Complete(S0, t, ExcInit("InvalidClientCredentials", data), NoBody)
    ELSE IF st = 403
    THEN Complete(S0, t, ExcInit("HTTPException", data), NoBody)
    ELSE IF st \in {500, 502, 503}
    THEN Complete(S0, t, ExcInit("ServerError", data), NoBody)
    ELSE AuthorizeReturn(S0, t)

\* AuthorizeResponse with utcnow() read when the call began, not at line 181
AuthorizeResponseStaleClock(S, t, st, expires_in, data) ==
    LET S0 == [S EXCEPT !.authStatus[t] = st] IN
    IF st = 200
    THEN AuthorizeReturn(
            [S0 EXCEPT !.grant[t] = <<S.issued + 1, expires_in>>,
                       !.issued = @ + 1,
                       !.access_token = S.issued + 1,
                       !.expires_at = S.chk[t][1] + expires_in], t)
    ELSE IF st \in {201, 202, 204, 304, 401, 404}
    THEN AuthorizeReturn(S0, t)
    ELSE IF st = 400
    THEN Complete(S0, t, ExcInit("InvalidClientCredentials", data), NoBody)
    ELSE IF st = 403
    THEN Complete(S0, t, ExcInit("HTTPException", data), NoBody)
    ELSE IF st \in {500, 502, 503}
    THEN Complete(S0, t, ExcInit("ServerError", data), NoBody)
    ELSE AuthorizeReturn(S0, t)

\* lines 176-212 of authorize(): the response of the account service
AuthorizeResponse(S, t, st, expires_in, data) ==
    LET S0 == [S EXCEPT !.authStatus[t] = st] IN
    IF st = 200
    THEN AuthorizeReturn(
            [S0 EXCEPT !.grant[t] = <<S.issued + 1, expires_in>>,
                       !.issued = @ + 1,
                       !.access_token = S.issued + 1,
                       !.expires_at = S.now + expires_in], t)
    ELSE IF st \in {201, 202, 204, 304, 401, 404}
    THEN AuthorizeReturn(S0, t)
    ELSE IF st = 400
    THEN Complete(S0, t, ExcInit("InvalidClientCredentials", data), NoBody)
    ELSE IF st = 403
    THEN Complete(S0, t, ExcInit("HTTPException", data), NoBody)
    ELSE IF st \in {500, 502, 503}
    THEN Complete(S0, t, ExcInit("ServerError", data), NoBody)
    ELSE AuthorizeReturn(S0, t)

\* RequestResponse without the 404 branch of lines 146-147
RequestResponseNoNotFound(S, t, st, payload, data) ==
    LET S0 == [S EXCEPT !.status[t] = st] IN
    IF 200 <= st /\ st < 300
    THEN Complete(S0, t, "ok", payload)
    ELSE IF st = 401
    THEN CallAuthorize(S0, t, "retry")
    ELSE IF st = 403
    THEN Complete(S0, t, ExcInit("Forbidden", data), NoBody)
    ELSE IF st \in {500, 502, 503}
    THEN Complete(S0, t, ExcInit("ServerError", data), NoBody)
    ELSE Complete(S0, t, ExcInit("HTTPException", data), NoBody)

\* lines 124-156 of request(): the response of a data endpoint
RequestResponse(S, t, st, payload, data) ==
    LET S0 == [S EXCEPT !.status[t] = st] IN
    IF 200 <= st /\ st < 300
    THEN Complete(S0, t, "ok", payload)
    ELSE IF st = 401
    THEN CallAuthorize(S0, t, "retry")
    ELSE IF st = 403
    THEN Complete(S0, t, ExcInit("Forbidden", data), NoBody)
    ELSE IF st = 404
    THEN Complete(S0, t, ExcInit("NotFound", data), NoBody)
    ELSE IF st \in {500, 502, 503}
    THEN Complete(S0, t, ExcInit("ServerError", data), NoBody)
    ELSE Complete(S0, t, ExcInit("HTTPException", data), NoBody)

\* lines 217-219 of destroy()
DestroySession(S, t) ==
    IF S.session = "none"
    THEN Complete(S, t, "AttributeError", NoBody)
    ELSE IF S.session = "open"
    THEN Complete([S EXCEPT !.session = "closed", !.closes = @ + 1],
                  t, "ok", NoBody)
    ELSE Complete(S, t, "ok", NoBody)

\* a task starts a top-level call
Begin(S, t, call) ==
    [S EXCEPT !.ops = @ + 1, !.op[t] = call, !.site[t] = "none",
              !.depth[t] = 0, !.hdr[t] = NoToken, !.sent[t] = NoToken,
              !.nAuth[t] = 0, !.nData[t] = 0,
              !.chk[t] = <<S.now, S.expires_at>>,
              !.status[t] = NoStatus, !.authStatus[t] = NoStatus,
              !.before[t] = <<S.access_token, S.expires_at>>,
              !.grant[t] = <<NoToken, 0>>,
              !.result[t] = "pending", !.ret[t] = NoBody]

----------------------------------------------------------------------------
(* Actions *)

\* await client.request(route)
Request(t) ==
    /\ pc[t] = "idle"
    /\ ops < MaxOps
    /\ Apply(EnterRequest(Begin(Cur, t, "request"), t))

\* await client.authorize()
Authorize(t) ==
    /\ pc[t] = "idle"
    /\ ops < MaxOps
    /\ Apply(CallAuthorize(Begin(Cur, t, "authorize"), t, "top"))

\* await client.destroy()
Destroy(t) ==
    /\ pc[t] = "idle"
    /\ ops < MaxOps
    /\ Apply(DestroySession(Begin(Cur, t, "destroy"), t))

\* the account service answers the POST of line 173
AuthResponse(t, statuses, lifetimes) ==
    /\ pc[t] = "auth_wait"
    /\ \E st \in statuses, e \in lifetimes, data \in AuthErrorBodies :
          /\ st = 200 => issued < MaxTokens
          /\ Apply(AuthorizeResponse(Cur, t, st, e, data))

\* a data endpoint answers the call of line 121
DataResponse(t, statuses) ==
    /\ pc[t] = "inflight"
    /\ \E st \in statuses, p \in Payloads, data \in DataErrorBodies :
          Apply(RequestResponse(Cur, t, st, p, data))

\* line 119: a waiting task gets the lock once it is free
Acquire(t) ==
    /\ pc[t] = "lock_wait"
    /\ lock = NoTask
    /\ Apply(Send([Cur EXCEPT !.lock = t], t))

\* time passes
Tick ==
    /\ \E d \in Delays :
          /\ now + d <= MaxTime
          /\ Apply([Cur EXCEPT !.now = now + d])

----------------------------------------------------------------------------
(* Specifications *)

\* One task calls the client, one call after the other; the services answer
\* with every status.
SeqNext ==
    \/ Request(Caller)
    \/ Authorize(Caller)
    \/ Destroy(Caller)
    \/ AuthResponse(Caller, AuthStatuses, ExpiresInValues)
    \/ DataResponse(Caller, DataStatuses)
    \/ Tick

SeqSpec == Init /\ [][SeqNext]_vars

\* Several tasks call the client concurrently.
Next ==
    \/ \E t \in Tasks : Request(t)
    \/ \E t \in Tasks : Authorize(t)
    \/ \E t \in Tasks : Destroy(t)
    \/ \E t \in Tasks : AuthResponse(t, SomeAuthStatuses, SomeExpiresIn)
    \/ \E t \in Tasks : DataResponse(t, SomeDataStatuses)
    \/ \E t \in Tasks : Acquire(t)
    \/ Tick

Spec == Init /\ [][Next]_vars

\* A client that was authorized at time 0: token 1, valid for 20 seconds.
RaceInit ==
    /\ now = 0
    /\ session = "open"
    /\ access_token = 1
    /\ expires_at = 20
    /\ lock = NoTask
    /\ created = 1
    /\ closes = 0
    /\ issued = 1
    /\ ops = 0
    /\ pc = [t \in AllTasks |-> "idle"]
    /\ op = [t \in AllTasks |-> "none"]
    /\ site = [t \in AllTasks |-> "none"]
    /\ depth = [t \in AllTasks |-> 0]
    /\ hdr = [t \in AllTasks |-> NoToken]
    /\ sent = [t \in AllTasks |-> NoToken]
    /\ nAuth = [t \in AllTasks |-> 0]
    /\ nData = [t \in AllTasks |-> 0]
    /\ chk = [t \in AllTasks |-> <<0, NoExpiry>>]
    /\ status = [t \in AllTasks |-> NoStatus]
    /\ authStatus = [t \in AllTasks |-> NoStatus]
    /\ before = [t \in AllTasks |-> <<NoToken, NoExpiry>>]
    /\ grant = [t \in AllTasks |-> <<NoToken, 0>>]
    /\ result = [t \in AllTasks |-> "none"]
    /\ ret = [t \in AllTasks |-> NoBody]
    /\ excArgs = NoArgs
    /\ excOut = NoExc

\* Three tasks call request() and authorize() on the authorized client;
\* the services answer 200.
RaceNext ==
    \/ \E t \in AllTasks : Request(t)
    \/ \E t \in AllTasks : Authorize(t)
    \/ \E t \in AllTasks : AuthResponse(t, {200}, SomeExpiresIn)
    \/ \E t \in AllTasks : DataResponse(t, {200})
    \/ \E t \in AllTasks : Acquire(t)

RaceSpec == RaceInit /\ [][RaceNext]_vars

\* an exception class of errors.py is called
Raise ==
    \E cls \in ExcClasses, st \in ExcStatuses, data \in ExcBodies,
       message \in ExtraMessages :
        /\ excArgs' = [cls |-> cls, status |-> st, data |-> data,
                       message |-> message]
        /\ excOut' = Construct(cls, data, st, message)
        /\ UNCHANGED <<now, session, access_token, expires_at, lock, created,
                       closes, issued, ops, pc, op, site, depth, hdr, sent,
                       nAuth, nData, chk, status, authStatus, before, grant,
                       result, ret>>

\* The exception classes constructed on their own.
ErrNext == Raise

ErrSpec == Init /\ [][ErrNext]_vars

\* The sequential specification with the network answering every exchange
\* it was given: a suspended coroutine is resumed when its response arrives.
FairSeqSpec ==
    /\ SeqSpec
    /\ WF_vars(AuthResponse(Caller, AuthStatuses, ExpiresInValues))
    /\ WF_vars(DataResponse(Caller, DataStatuses))

----------------------------------------------------------------------------
(* Properties *)

\* the token state a request() saw at its freshness check
SeenRemaining(t) == chk[t][2] - chk[t][1]

\* C1: after a data call of request() was answered 401 and the single
\* re-authorization has succeeded, request() issues one further data call
\* for the route, and that call carries the newly issued token.
C1_RetriesOnceAfter401 ==
    (/\ op[Caller] = "request"
     /\ status[Caller] = 401
     /\ nAuth[Caller] = 1
     /\ authStatus[Caller] = 200
     /\ pc[Caller] # "auth_wait")
    ~> (/\ nData[Caller] = 2
        /\ sent[Caller] = grant[Caller][1])

\* C2: a request() that found a stored token with expires_at - now <= 10
\* at its freshness check has called authorize() exactly once when it
\* dispatches its data call.
C2_RefreshesWithin10s ==
    \A t \in Tasks :
        (/\ op[t] = "request"
         /\ pc[t] = "inflight"
         /\ depth[t] = 0
         /\ chk[t][2] # NoExpiry
         /\ SeenRemaining(t) <= 10)
        => nAuth[t] = 1

\* the data calls between dispatch and response
InFlight == {t \in Tasks : pc[t] = "inflight"}

\* C3: at most one data request is in flight at any instant.
C3_OneDataCallInFlight == Cardinality(InFlight) <= 1

\* one task's data call is in flight while another task waits for the lock
C3_Witness ==
    \E t, u \in Tasks : pc[t] = "inflight" /\ pc[u] = "lock_wait"

\* C4: every request() call eventually completes, with data or a failure.
C4_RequestCompletes ==
    (op[Caller] = "request" /\ pc[Caller] # "idle") ~> (pc[Caller] = "idle")

\* C5: request() on a client on which authorize() was never called fails
\* with NotAuthorized, having issued no network call.
C5_NotAuthorizedBeforeAuthorize ==
    \A t \in Tasks :
        (op[t] = "request" /\ created = 0)
        => (/\ pc[t] = "idle"
            /\ result[t] = "NotAuthorized"
            /\ nData[t] = 0
            /\ nAuth[t] = 0)

\* a request() has failed on a client that never saw authorize()
C5_Witness ==
    \E t \in Tasks :
        op[t] = "request" /\ created = 0 /\ result[t] = "NotAuthorized"

\* C6: while no authorize() call has succeeded (none was answered 200),
\* a request() fails with NotAuthorized and issues no data call.
C6_NotAuthorizedUntilSuccess ==
    \A t \in Tasks :
        (op[t] = "request" /\ issued = 0)
        => (/\ pc[t] = "idle"
            /\ result[t] = "NotAuthorized"
            /\ nData[t] = 0)

\* C7: destroy() never raises.
C7_DestroyNeverRaises ==
    \A t \in Tasks :
        (op[t] = "destroy" /\ pc[t] = "idle") => result[t] = "ok"

\* C8: the step in which an authorize() call receives a 200 answer leaves
\* access_token equal to the answer's token and expires_at equal to the
\* time of that step plus the answer's expires_in.
C8_GrantReplacesTokenState ==
    [][\A t \in Tasks :
          (issued' = issued + 1 /\ grant'[t][1] = issued')
          => (/\ access_token' = grant'[t][1]
              /\ expires_at' = now' + grant'[t][2])]_vars

\* an authorize() that began when a token was stored, and was answered 200
\* after time had passed, has replaced the token state
C8_Witness ==
    \E t \in Tasks :
        /\ authStatus[t] = 200
        /\ before[t][1] # NoToken
        /\ grant[t][1] = issued
        /\ chk[t][1] < now
        /\ access_token = grant[t][1]
        /\ access_token # before[t][1]
        /\ expires_at = now + grant[t][2]

\* C9: authorize() answered 400 raises InvalidClientCredentials, answered
\* 403 raises HTTPException, answered 500, 502 or 503 raises ServerError,
\* and the token state is the one the call found.
C9_AuthorizeFailures ==
    \A t \in Tasks :
        /\ authStatus[t] = 400 => result[t] = "InvalidClientCredentials"
        /\ authStatus[t] = 403 => result[t] = "HTTPException"
        /\ authStatus[t] \in {500, 502, 503} => result[t] = "ServerError"
        /\ authStatus[t] \in {400, 403, 500, 502, 503}
           => <<access_token, expires_at>> = before[t]

\* the outcome the status of a data response stands for
OutcomeOf(st) ==
    IF 200 <= st /\ st <= 299 THEN "ok"
    ELSE IF st = 403 THEN "Forbidden"
    ELSE IF st = 404 THEN "NotFound"
    ELSE IF st \in {500, 502, 503} THEN "ServerError"
    ELSE "HTTPException"

\* C10: a data response with a status other than 401 ends request() with
\* the outcome of that status: the parsed body for 200-299, Forbidden for
\* 403, NotFound for 404, ServerError for 500, 502 and 503, and the plain
\* HTTPException for every other status.
C10_StatusDecidesOutcome ==
    \A t \in Tasks :
        (status[t] # NoStatus /\ status[t] # 401)
        => (/\ pc[t] = "idle"
            /\ result[t] = OutcomeOf(status[t])
            /\ (result[t] = "ok") = (ret[t] \in Payloads))

\* a rate-limited data call has ended with the plain HTTPException
C10_Witness ==
    \E t \in Tasks :
        op[t] = "request" /\ status[t] = 429 /\ result[t] = "HTTPException"

\* C11: a request() that has returned or raised holds the lock no longer,
\* and no request() waits for the lock while a frame of its own task
\* holds it.
C11_LockReleasedOnEveryExit ==
    \A t \in Tasks :
        /\ pc[t] = "idle" => lock # t
        /\ ~(pc[t] = "lock_wait" /\ lock = t)

\* C12: at most one session is ever created, the first authorize() creates
\* it, every authorize() call finds it, and it is closed at most once.
C12_OneSession ==
    /\ created <= 1
    /\ closes <= 1
    /\ (created = 0) = (session = "none")
    /\ \A t \in Tasks : nAuth[t] > 0 => created = 1

\* an authorize() made after destroy() has not created a second session
C12_Witness ==
    /\ created = 1
    /\ closes = 1
    /\ \E t \in Tasks : op[t] = "authorize" /\ result[t] = "RuntimeError"

\* C13: authorize() answered 201, 202, 204, 304, 401 or 404 returns
\* normally and leaves access_token and expires_at as it found them.
C13_SoftFailuresKeepTokenState ==
    \A t \in Tasks :
        authStatus[t] \in {201, 202, 204, 304, 401, 404}
        => (/\ <<access_token, expires_at>> = before[t]
            /\ op[t] = "authorize" => (pc[t] = "idle" /\ result[t] = "ok")
            /\ result[t] \notin {"InvalidClientCredentials", "TypeError"})

\* an authorize() on a client with a stored token was answered 404
C13_Witness ==
    \E t \in Tasks :
        /\ op[t] = "authorize"
        /\ authStatus[t] = 404
        /\ before[t][1] # NoToken
        /\ access_token = before[t][1]
        /\ result[t] = "ok"

\* C14: a request() that found a stored token with expires_at - now > 10
\* at its freshness check dispatches its data call without having called
\* authorize(), and the call carries the token that was stored.
C14_FreshTokenIsUsed ==
    \A t \in Tasks :
        (/\ op[t] = "request"
         /\ chk[t][2] # NoExpiry
         /\ SeenRemaining(t) > 10
         /\ status[t] = NoStatus)
        => (/\ nAuth[t] = 0
            /\ pc[t] = "inflight" => sent[t] = before[t][1])

\* C15: after destroy() the token state is absent, and a request() made on
\* the closed client fails with NotAuthorized without a data call.
C15_DestroyClearsTokenState ==
    \A t \in Tasks :
        /\ (op[t] = "destroy" /\ result[t] = "ok")
           => (access_token = NoToken /\ expires_at = NoExpiry)
        /\ (op[t] = "request" /\ session = "closed")
           => (result[t] = "NotAuthorized" /\ nData[t] = 0)

\* C16: the step that issues a data call sends the access token that is
\* stored when the call is issued.
C16_SendsStoredToken ==
    [][\A t \in AllTasks :
          nData'[t] = nData[t] + 1 => sent'[t] = access_token']_vars

\* C17: a request() that starts while the freshness test of line 112 is
\* true calls authorize() itself, whatever authorize() calls are already
\* under way; and the token state changes only in the step in which an
\* authorize() call receives its 200 answer.
C17_RefreshesNotCoalesced ==
    [][/\ \A t \in Tasks :
            (/\ pc[t] = "idle"
             /\ pc'[t] # "idle"
             /\ op'[t] = "request"
             /\ session = "open"
             /\ expires_at # NoExpiry
             /\ NeedsRefresh(Cur))
            => (pc'[t] = "auth_wait" /\ nAuth'[t] = 1)
       /\ (access_token' # access_token \/ expires_at' # expires_at)
          => \E t \in Tasks :
                /\ pc[t] = "auth_wait"
                /\ authStatus'[t] = 200
                /\ grant'[t][1] = access_token']_vars

\* two request() calls that saw the same token at their freshness check are
\* both inside authorize() for it
C17_Witness ==
    \E t, u \in Tasks :
        /\ t # u
        /\ op[t] = "request" /\ op[u] = "request"
        /\ pc[t] = "auth_wait" /\ pc[u] = "auth_wait"
        /\ site[t] = "fresh" /\ site[u] = "fresh"
        /\ chk[t][2] = chk[u][2]
        /\ before[t] = <<access_token, expires_at>>
        /\ before[u] = <<access_token, expires_at>>

\* C18: constructing an HTTP failure from a body of either documented
\* shape gives an exception of the class that was called, whose text is
\* made of the status code, the error field, the text of error_description
\* if the body has one and of error.message otherwise, and the extra
\* message.
C18_FailureMessage ==
    excArgs.cls # "none"
    => (/\ excOut.cls = excArgs.cls
        /\ excOut.msg =
              Text(excArgs.status, excArgs.data.error,
                   IF excArgs.data.desc
                   THEN excArgs.data.description
                   ELSE excArgs.data.message,
                   excArgs.message))

====
